---- MODULE Spec2Model ----
(***************************************************************************)
(* DICOM viewer: the volume assembler (DICOMLoader.load_dicom_folder) and  *)
(* the viewer controller (GUI.DICOMViewerGUI).                             *)
(*                                                                         *)
(* Python lists and numpy axes are 0-based, TLA+ sequences are 1-based:    *)
(* Python image_shape[k] is image_shape[k + 1] here.  Slice indices        *)
(* (current_slice, the cut positions) keep their 0-based Python values.    *)
(***************************************************************************)
EXTENDS Integers, Sequences, FiniteSets, TLC

\* ------------------------------------------------------------------ bounds
MaxRows == 2
MaxCols == 2
MaxSlices == 5
MaxFiles == 2
MaxPos == 1
MaxPix == 2

\* --------------------------------------------------------------- constants
\* Python's None, as the empty value of the field's type: the fields that hold
\* lists, arrays of axes or ratios hold None, the volume field holds NoVolume.
None == <<>>
NoVolume == [shape |-> <<>>, data |-> <<>>]
NoError == "none"
ScrollStep == 5

\* ------------------------------------------------------------------- state
VARIABLES
    volume_3d,              \* NoVolume or [shape |-> <<rows, cols, n>>, data |-> Seq]
    image_shape,            \* None or the list the loader returned (mutable)
    current_slice,
    axial_aspect_ratio,
    sagittal_aspect_ratio,
    coronal_aspect_ratio,
    zoom_mode,
    axs,                    \* None or the cut indices of the three drawn images
    lastCall,               \* the method called last
    raised,                 \* the exception the last call ended in, or NoError
    run,                    \* history: the current series of forward scrolls
    folderA, folderB,       \* assembler harness: two enumerations of one folder
    resultA, resultB        \* assembler harness: what load_dicom_folder returned

ctrl == <<volume_3d, image_shape, current_slice, axial_aspect_ratio,
          sagittal_aspect_ratio, coronal_aspect_ratio, zoom_mode>>
gui == <<ctrl, axs, lastCall, raised, run>>
harness == <<folderA, folderB, resultA, resultB>>
vars == <<gui, harness>>

\* ------------------------------------------------------- the input domains
Planes == {"Axial", "Sagittal", "Coronal"}
Buttons == {"up", "down"}
Spacings == {<<1, 1>>, <<1, 2>>}
Thicknesses == {2}
GridShapes == {<<1, 2>>, <<2, 2>>}

\* One directory entry as dicom.read_file(force=True) returns it.  A file that
\* is no DICOM file ("junk") yields a dataset without the attributes.
File(kind, z, pix, shape, spacing, thick) ==
    [kind |-> kind, z |-> z, pix |-> pix, shape |-> shape,
     spacing |-> spacing, thick |-> thick]

JunkFile == File("junk", 0, 0, <<1, 1>>, <<1, 1>>, 1)

Folder(readable, files) == [readable |-> readable, files |-> files]

\* ------------------------------------------------------------ DICOMLoader.py
RECURSIVE GCD(_, _)
GCD(a, b) == IF b = 0 THEN a ELSE GCD(b, a % b)

\* The value of the float division a / b, kept exact as a reduced fraction.
Ratio(a, b) == <<a \div GCD(a, b), b \div GCD(a, b)>>

\* list.insert at the place a stable ascending sort by key gives x when x
\* comes after every element of s in the input: behind all keys <= x's.
RECURSIVE InsertByKey(_, _)
InsertByKey(s, x) ==
    IF s = <<>> THEN <<x>>
    ELSE IF s[Len(s)].z <= x.z THEN Append(s, x)
    ELSE Append(InsertByKey(SubSeq(s, 1, Len(s) - 1), x), s[Len(s)])

\* The listing left in enumeration order.
unsorted(s) == s

\* sorted(slices, key=lambda x: x.ImagePositionPatient[2]): ascending, stable.
RECURSIVE sorted(_)
sorted(s) ==
    IF s = <<>> THEN <<>>
    ELSE InsertByKey(sorted(SubSeq(s, 1, Len(s) - 1)), s[Len(s)])

\* numpy: an array of shape src can be assigned to a slab of shape dst.
Broadcastable(src, dst) == \A k \in 1..2 : src[k] = dst[k] \/ src[k] = 1

Failure(exc) ==
    [raised |-> exc, volume_3d |-> NoVolume, image_shape |-> None,
     axial_aspect_ratio |-> None, sagittal_aspect_ratio |-> None,
     coronal_aspect_ratio |-> None]

\* load_dicom_folder(folder_path): the returned tuple, or the exception raised.
load_dicom_folder(folder) ==
    IF ~folder.readable THEN Failure("OSError")
    ELSE IF \E i \in 1..Len(folder.files) : folder.files[i].kind = "junk"
        THEN Failure("AttributeError")
    ELSE IF folder.files = <<>> THEN Failure("IndexError")
    ELSE
        LET slices == sorted(folder.files)
            pix_spacing == slices[1].spacing
            slices_thickness == slices[1].thick
            shape == slices[1].shape \o <<Len(slices)>>
        IN  IF \E i \in 1..Len(slices) :
                    ~Broadcastable(slices[i].shape, slices[1].shape)
            THEN Failure("ValueError")
            ELSE [raised |-> NoError,
                  volume_3d |->
                      [shape |-> shape,
                       data |-> [i \in 1..Len(slices) |->
                                    <<slices[i].pix, slices[i].shape>>]],
                  image_shape |-> shape,
                  axial_aspect_ratio |-> Ratio(pix_spacing[2], pix_spacing[1]),
                  sagittal_aspect_ratio |-> Ratio(pix_spacing[1], pix_spacing[2]),
                  coronal_aspect_ratio |-> Ratio(slices_thickness, pix_spacing[1])]

\* ------------------------------------------- the folders the user can pick
\* A well-formed stack of n slices of one grid shape and one geometry, listed
\* in descending position (the enumeration order is unrelated to the
\* anatomical order).  Stacks of odd and of even length differ in spacing.
Stack(rows, cols, n) ==
    Folder(TRUE, [i \in 1..n |->
                    File("dicom", n - i, ((n - i) % MaxPix) + 1, <<rows, cols>>,
                         <<1, 1 + (n % 2)>>, 2)])

\* Folders the assembler fails on: unreadable, empty, a file that is no DICOM
\* file, two grids that do not fit one volume.
BadFolders ==
    <<Folder(FALSE, <<>>),
      Folder(TRUE, <<>>),
      Folder(TRUE, <<File("dicom", 0, 1, <<2, 2>>, <<1, 1>>, 2), JunkFile>>),
      Folder(TRUE, <<File("dicom", 1, 1, <<2, 2>>, <<1, 1>>, 2),
                     File("dicom", 0, 2, <<1, 2>>, <<1, 1>>, 2)>>)>>

\* What filedialog.askdirectory returns: NoPath ("") when cancelled, else the
\* path of a folder, <<rows, cols, n>> for a stack and <<0, 0, k>> for the
\* k-th bad folder.
NoPath == <<>>
StackPaths ==
    {<<rows, cols, n>> : rows \in 1..MaxRows, cols \in 1..MaxCols, n \in 1..MaxSlices}
BadPaths == {<<0, 0, k>> : k \in 1..Len(BadFolders)}
Paths == StackPaths \cup BadPaths

\* The file system: the folder a path names.
Directory(path) ==
    IF path[1] = 0 THEN BadFolders[path[3]] ELSE Stack(path[1], path[2], path[3])

\* load_dicom_folder on each folder the dialog can name, computed once.
Assembled == [path \in Paths |-> load_dicom_folder(Directory(path))]

\* ------------------------------------------------------------------- GUI.py
Loaded == volume_3d # NoVolume

\* len(self.volume_3d[0, 0, :]), len(...[0, :, 0]), len(...[:, 0, 0]) by plane.
AxisLen(vol, plane) ==
    CASE plane = "Axial" -> vol.shape[3]
      [] plane = "Sagittal" -> vol.shape[2]
      [] plane = "Coronal" -> vol.shape[1]

\* update_plots, lines 129-131: the indices at which the three planes are cut.
CutIndices(cs, shape) == <<cs, shape[2] \div 2, shape[1] \div 2>>

PlaneOrder == <<"Axial", "Sagittal", "Coronal">>

\* numpy accepts index i on an axis of length len.
Indexable(i, len) == -len <= i /\ i < len

\* plt.subplots / ax.clear(): three axes showing no image.
ClearedAxes == <<<<>>, <<>>, <<>>>>

\* What update_plots raises on the given fields, or NoError.
PlotError(a, vol, cs, shape) ==
    IF a = None THEN "TypeError"
    ELSE IF vol = NoVolume \/ shape = None THEN "TypeError"
    ELSE IF \E k \in 1..3 :
                ~Indexable(CutIndices(cs, shape)[k], AxisLen(vol, PlaneOrder[k]))
        THEN "IndexError"
    ELSE NoError

\* update_plots on the given fields: each axis shows the cut at its index.
update_plots(a, vol, cs, shape) ==
    /\ raised' = PlotError(a, vol, cs, shape)
    /\ axs' = CASE PlotError(a, vol, cs, shape) = NoError ->
                       [k \in 1..3 |-> <<CutIndices(cs, shape)[k]>>]
                [] a = None -> a
                [] OTHER -> ClearedAxes

\* (index + delta) % length, Python's modulo (the sign of the divisor).
WrapNone(i, delta, len) == i + delta
WrapClamp(i, delta, len) ==
    IF i + delta < 0 THEN 0 ELSE IF i + delta >= len THEN len - 1 ELSE i + delta
Wrap(i, delta, len) == (i + delta) % len

Delta(button) == IF button = "up" THEN ScrollStep ELSE 0 - ScrollStep

CeilDiv(a, b) == (a + b - 1) \div b

\* The index at which the active plane is cut on the given fields.
ActiveIndex(mode, cs, shape) ==
    CASE mode = "Axial" -> CutIndices(cs, shape)[1]
      [] mode = "Sagittal" -> CutIndices(cs, shape)[2]
      [] mode = "Coronal" -> CutIndices(cs, shape)[3]

NoRun == [start |-> 0, len |-> 0]

\* History of on_scroll: the series of consecutive 'up' events on one plane,
\* as the index it started from and its length, restarted once it has
\* ceil(L / 5) events.
RunAfter(button) ==
    IF button # "up" THEN NoRun
    ELSE IF run.len > 0
            /\ run.len < CeilDiv(AxisLen(volume_3d, zoom_mode), ScrollStep)
        THEN [run EXCEPT !.len = @ + 1]
    ELSE [start |-> ActiveIndex(zoom_mode, current_slice, image_shape), len |-> 1]

\* on_scroll(event), event.button = button.
on_scroll(button) ==
    /\ lastCall' = "on_scroll"
    /\ UNCHANGED <<volume_3d, axial_aspect_ratio, sagittal_aspect_ratio,
                   coronal_aspect_ratio, zoom_mode, harness>>
    /\ IF ~Loaded
       THEN /\ raised' = "TypeError"
            /\ UNCHANGED <<image_shape, current_slice, axs, run>>
       ELSE /\ run' = RunAfter(button)
            /\ current_slice' =
                   IF zoom_mode = "Axial"
                   THEN Wrap(current_slice, Delta(button), AxisLen(volume_3d, "Axial"))
                   ELSE current_slice
            /\ image_shape' =
                   CASE zoom_mode = "Sagittal" ->
                            [image_shape EXCEPT
                                ![2] = Wrap(@, Delta(button), AxisLen(volume_3d, "Sagittal"))]
                     [] zoom_mode = "Coronal" ->
                            [image_shape EXCEPT
                                ![1] = Wrap(@, Delta(button), AxisLen(volume_3d, "Coronal"))]
                     [] OTHER -> image_shape
            /\ update_plots(axs, volume_3d, current_slice', image_shape')

\* set_zoom_mode(mode)
set_zoom_mode(mode) ==
    /\ lastCall' = "set_zoom_mode"
    /\ zoom_mode' = mode
    /\ run' = NoRun
    /\ UNCHANGED <<volume_3d, image_shape, current_slice, axial_aspect_ratio,
                   sagittal_aspect_ratio, coronal_aspect_ratio, harness>>
    /\ update_plots(axs, volume_3d, current_slice, image_shape)

\* update_plots() called on its own: the read of the current slices.
currentSlices ==
    /\ lastCall' = "update_plots"
    /\ UNCHANGED <<ctrl, run, harness>>
    /\ update_plots(axs, volume_3d, current_slice, image_shape)

\* display_dicom, line 95
CenterKept(shape) == current_slice
Center(shape) == shape[3] \div 2

\* display_dicom and add_plot_to_gui on the fields load_dicom_folder assigned.
display_dicom(vol, shape) ==
    /\ current_slice' = Center(shape)
    /\ update_plots(ClearedAxes, vol, Center(shape), shape)

\* The load handler dropping the held volume before it calls the loader.
GUI_load_dropping_first(folder_path) ==
    /\ UNCHANGED harness
    /\ IF folder_path = NoPath
       THEN /\ lastCall' = "load_dicom_folder (cancelled)"
            /\ raised' = NoError
            /\ UNCHANGED <<ctrl, axs, run>>
       ELSE /\ lastCall' = "load_dicom_folder"
            /\ LET r == Assembled[folder_path]
               IN  IF r.raised # NoError
                   THEN /\ raised' = r.raised
                        /\ volume_3d' = NoVolume
                        /\ image_shape' = None
                        /\ run' = NoRun
                        /\ UNCHANGED <<current_slice, axial_aspect_ratio,
                                       sagittal_aspect_ratio, coronal_aspect_ratio,
                                       zoom_mode, axs>>
                   ELSE /\ volume_3d' = r.volume_3d
                        /\ image_shape' = r.image_shape
                        /\ axial_aspect_ratio' = r.axial_aspect_ratio
                        /\ sagittal_aspect_ratio' = r.sagittal_aspect_ratio
                        /\ coronal_aspect_ratio' = r.coronal_aspect_ratio
                        /\ UNCHANGED zoom_mode
                        /\ run' = NoRun
                        /\ display_dicom(r.volume_3d, r.image_shape)

\* The load handler putting the scroll routing back to the axial plane.
GUI_load_resetting_zoom(folder_path) ==
    /\ UNCHANGED harness
    /\ IF folder_path = NoPath
       THEN /\ lastCall' = "load_dicom_folder (cancelled)"
            /\ raised' = NoError
            /\ UNCHANGED <<ctrl, axs, run>>
       ELSE /\ lastCall' = "load_dicom_folder"
            /\ LET r == Assembled[folder_path]
               IN  IF r.raised # NoError
                   THEN /\ raised' = r.raised
                        /\ UNCHANGED <<ctrl, axs, run>>
                   ELSE /\ volume_3d' = r.volume_3d
                        /\ image_shape' = r.image_shape
                        /\ axial_aspect_ratio' = r.axial_aspect_ratio
                        /\ sagittal_aspect_ratio' = r.sagittal_aspect_ratio
                        /\ coronal_aspect_ratio' = r.coronal_aspect_ratio
                        /\ zoom_mode' = "Axial"
                        /\ run' = NoRun
                        /\ display_dicom(r.volume_3d, r.image_shape)

\* DICOMViewerGUI.load_dicom_folder, the dialog answering folder_path.
GUI_load_dicom_folder(folder_path) ==
    /\ UNCHANGED harness
    /\ IF folder_path = NoPath
       THEN /\ lastCall' = "load_dicom_folder (cancelled)"
            /\ raised' = NoError
            /\ UNCHANGED <<ctrl, axs, run>>
       ELSE /\ lastCall' = "load_dicom_folder"
            /\ LET r == Assembled[folder_path]
               IN  IF r.raised # NoError
                   THEN /\ raised' = r.raised
                        /\ UNCHANGED <<ctrl, axs, run>>
                   ELSE /\ volume_3d' = r.volume_3d
                        /\ image_shape' = r.image_shape
                        /\ axial_aspect_ratio' = r.axial_aspect_ratio
                        /\ sagittal_aspect_ratio' = r.sagittal_aspect_ratio
                        /\ coronal_aspect_ratio' = r.coronal_aspect_ratio
                        /\ UNCHANGED zoom_mode
                        /\ run' = NoRun
                        /\ display_dicom(r.volume_3d, r.image_shape)

\* ------------------------------------------------------------------ inputs
\* The directory entries of the assembler harness.
AsmFiles ==
    {JunkFile} \cup
    {File("dicom", z, pix, shape, spacing, thick) :
        z \in 0..MaxPos, pix \in 1..MaxPix, shape \in GridShapes,
        spacing \in Spacings, thick \in Thicknesses}

AsmFolders ==
    {Folder(FALSE, <<>>)} \cup
    {Folder(TRUE, fs) : fs \in UNION {[1..n -> AsmFiles] : n \in 0..MaxFiles}}

\* os.listdir returns the entries in arbitrary order: every enumeration of f.
Enumerations(f) ==
    {Folder(f.readable, [i \in 1..Len(f.files) |-> f.files[p[i]]]) :
        p \in {q \in [1..Len(f.files) -> 1..Len(f.files)] :
                   \A i, j \in 1..Len(f.files) : q[i] = q[j] => i = j}}

Pending == Failure("pending")

\* -------------------------------------------------------------- the machine
\* DICOMViewerGUI.__init__
InitGUI ==
    /\ volume_3d = NoVolume
    /\ image_shape = None
    /\ current_slice = 0
    /\ axial_aspect_ratio = None
    /\ sagittal_aspect_ratio = None
    /\ coronal_aspect_ratio = None
    /\ zoom_mode = "Axial"
    /\ axs = None
    /\ lastCall = "__init__"
    /\ raised = NoError
    /\ run = NoRun

Init ==
    /\ InitGUI
    /\ folderA = Folder(TRUE, <<>>)
    /\ folderB = Folder(TRUE, <<>>)
    /\ resultA = Pending
    /\ resultB = Pending

Load == \E folder_path \in Paths \cup {NoPath} : GUI_load_dicom_folder(folder_path)
Scroll == \E button \in Buttons : on_scroll(button)
SetZoomMode == \E mode \in Planes : set_zoom_mode(mode)

Next == Load \/ Scroll \/ SetZoomMode \/ currentSlices

Spec == Init /\ [][Next]_vars

\* The assembler on its own: one folder, two enumerations of its entries,
\* load_dicom_folder called on each.
InitAsm ==
    /\ InitGUI
    /\ folderA \in AsmFolders
    /\ folderB \in Enumerations(folderA)
    /\ resultA = Pending
    /\ resultB = Pending

AssembleA ==
    /\ resultA = Pending
    /\ resultA' = load_dicom_folder(folderA)
    /\ UNCHANGED <<gui, folderA, folderB, resultB>>

AssembleB ==
    /\ resultA # Pending
    /\ resultB = Pending
    /\ resultB' = load_dicom_folder(folderB)
    /\ UNCHANGED <<gui, folderA, folderB, resultA>>

NextAsm == AssembleA \/ AssembleB

SpecAsm == InitAsm /\ [][NextAsm]_vars

\* ================================================================== claims
\* What currentSlices cuts the volume at, on the controller's present fields.
Cuts == CutIndices(current_slice, image_shape)
Shape == volume_3d.shape
SuccessfulLoad == lastCall = "load_dicom_folder" /\ raised = NoError

\* C1: with a volume loaded and active plane P, scroll(Forward) moves the index
\* at which plane P is cut from i to (i + 5) mod L and scroll(Backward) moves
\* it from i to (i - 5) mod L, L the length of P's axis.
C1_ScrollMovesActiveCutByFive ==
    [][\A button \in Buttons :
         (Loaded /\ on_scroll(button)) =>
            ActiveIndex(zoom_mode, current_slice', image_shape')
              = (ActiveIndex(zoom_mode, current_slice, image_shape) + Delta(button))
                    % AxisLen(volume_3d, zoom_mode)]_vars

\* C2: a load on which the assembler fails leaves the held volume, the
\* recorded dimensions, the three ratios, the axial index and the active plane
\* exactly as they were.
C2_FailedLoadKeepsState ==
    [][(lastCall' = "load_dicom_folder" /\ raised' # NoError) =>
            UNCHANGED ctrl]_vars

\* C2 witness: a reload has failed on a controller that holds a volume, with
\* the sagittal plane active and the sagittal entry scrolled.
C2_Witness ==
    /\ lastCall = "load_dicom_folder"
    /\ raised \in {"OSError", "IndexError", "AttributeError"}
    /\ Loaded
    /\ zoom_mode = "Sagittal"
    /\ image_shape # Shape

\* C3 as stated: a successful load, a reload of a loaded controller included,
\* leaves Axial as the active plane.
C3_ReloadResetsPlaneToAxial ==
    [][(Loaded /\ lastCall' = "load_dicom_folder" /\ raised' = NoError) =>
            zoom_mode' = "Axial"]_vars

\* C3 as amended: a successful load never changes the active plane; it is the
\* plane it was before the load (Axial on a controller on which no plane was
\* ever selected).
C3_LoadKeepsActivePlane ==
    [][(lastCall' = "load_dicom_folder" /\ raised' = NoError) =>
            zoom_mode' = zoom_mode]_vars

\* C3 witness: a volume was just loaded and the active plane is Sagittal.
C3_Witness == SuccessfulLoad /\ Loaded /\ zoom_mode = "Sagittal"

\* C4: after a successful load the three cut indices are the centers of the
\* newly loaded volume: N div 2, (axis-1 length) div 2, (axis-0 length) div 2.
C4_LoadCentersCuts ==
    SuccessfulLoad =>
        /\ Cuts = <<Shape[3] \div 2, Shape[2] \div 2, Shape[1] \div 2>>
        /\ axs = [k \in 1..3 |-> <<Cuts[k]>>]

\* C4 witness: a five-slice volume of two columns was just loaded while the
\* coronal plane is the active one (so a plane switch came before the load).
C4_Witness ==
    /\ SuccessfulLoad
    /\ zoom_mode = "Coronal"
    /\ Shape[3] = MaxSlices
    /\ Shape[2] = 2
    /\ Cuts = <<MaxSlices \div 2, 1, Shape[1] \div 2>>

C6_CutsStayInRange ==
    Loaded =>
        /\ \A k \in 1..3 : Cuts[k] \in 0..(AxisLen(volume_3d, PlaneOrder[k]) - 1)
        /\ lastCall \in {"on_scroll", "set_zoom_mode", "update_plots"}
                => raised = NoError

\* C6 witness: a backward scroll on the axial plane of a three-slice volume
\* has wrapped from index 1 to index 2.
C6_Witness ==
    /\ Loaded
    /\ lastCall = "on_scroll"
    /\ zoom_mode = "Axial"
    /\ Shape[3] = 3
    /\ current_slice = 2
    /\ run = NoRun

\* C7: currentSlices or scroll on a controller that never loaded a volume ends
\* in the dedicated NotLoadedError.
C7_UnloadedReadRaisesNotLoadedError ==
    (~Loaded /\ lastCall \in {"update_plots", "on_scroll"})
        => raised = "NotLoadedError"

\* C10: between two loads the recorded dimensions image_shape equal the shape
\* (W, H, N) of the held volume, whatever scrolls and plane switches happen.
C10_RecordedShapeIsVolumeShape == Loaded => image_shape = Shape

\* -------------------------------------------------- claims on the assembler
Files(f) == {f.files[i] : i \in 1..Len(f.files)}

\* A valid slice set: a readable, non-empty folder of DICOM files that share
\* grid shape, pixel spacing and thickness.
ValidSliceSet(f) ==
    /\ f.readable
    /\ f.files # <<>>
    /\ \A x \in Files(f) : x.kind = "dicom"
    /\ \A x, y \in Files(f) :
          x.shape = y.shape /\ x.spacing = y.spacing /\ x.thick = y.thick

DistinctPositions(f) ==
    \A i, j \in 1..Len(f.files) : f.files[i].z = f.files[j].z => i = j

BothAssembled == resultA # Pending /\ resultB # Pending

\* C8 as stated: any two enumerations of a valid slice set, equal positions
\* included, assemble to the identical volume.
C8_EnumerationOrderIrrelevant ==
    (BothAssembled /\ ValidSliceSet(folderA)) => resultA = resultB

\* C8 as amended: any two enumerations of a valid slice set whose positions
\* are pairwise distinct assemble to the identical volume, slice i of which is
\* the input slice with the i-th smallest position.
C8_DistinctPositionsOrderIrrelevant ==
    (BothAssembled /\ ValidSliceSet(folderA) /\ DistinctPositions(folderA)) =>
        /\ resultA = resultB
        /\ resultA.raised = NoError
        /\ \A x \in Files(folderA) :
              resultA.volume_3d.data[Cardinality({y \in Files(folderA) : y.z <= x.z})]
                  = <<x.pix, x.shape>>

\* C8 witness: two slices at distinct positions, enumerated in the two
\* opposite orders, have both been assembled.
C8_Witness ==
    /\ BothAssembled
    /\ ValidSliceSet(folderA)
    /\ DistinctPositions(folderA)
    /\ Len(folderA.files) = 2
    /\ folderA # folderB
    /\ folderA.files[1].pix # folderA.files[2].pix
    /\ folderA.files[1].z > folderA.files[2].z

\* C9: when two slices of the folder differ in pixel spacing, thickness or
\* grid shape, the assembler ends in an error and returns no volume.
C9_GeometryMismatchIsRejected ==
    (resultA # Pending
        /\ \E x, y \in Files(folderA) :
              x.shape # y.shape \/ x.spacing # y.spacing \/ x.thick # y.thick)
        => (resultA.raised # NoError /\ resultA.volume_3d = NoVolume)

====
